---- MODULE Spec2Model ----
(***************************************************************************)
(* Model of the chat request/response orchestrator of the Xiquet front-end *)
(* (ChatInterface.js, apiService.js, App.js).                              *)
(*                                                                         *)
(* Time is an abstract clock `now`: its unit is one network round trip     *)
(* (start or status), the POLL_INTERVAL wait before it included.           *)
(***************************************************************************)
EXTENDS Integers, Sequences, FiniteSets, TLC

\* ---------------------------------------------------------------- bounds
MaxTime == 5          \* the clock is not advanced beyond this value
MaxJobs == 2          \* accepted submissions per behaviour
MaxPollTime == 2      \* MAX_POLL_TIME (60000 ms) scaled to clock units
ContextChars == 3     \* the 300 characters kept by substring(0, 300), scaled

\* ---------------------------------------------------------------- values
NoUser == "none"
NoSession == "none"
NoEnt == "none"                      \* null / undefined identified_entities
Entities == {"E1", "E2"}
Contents == {"q1", "q2"}
Answers == {"", "A1"}                \* status.response of a complete job
ErrorMessages == {"", "Err1"}        \* status.error_message of a failed job
FallbackError == "Hi ha hagut un error processant la teva pregunta."
TimeoutError == "Request timeout - processing took too long"
StartTransportError == "HTTP 500: start"     \* error.message of a failed startChat
StatusTransportError == "HTTP 500: status"   \* error.message of a failed getMessageStatus
NoSaveMessages == "No hi ha missatges per guardar"
SaveError == "Error guardant la conversa"
NoCall == [pc |-> "none"]
NoContext == [null |-> TRUE]          \* previousContext = null
NoReq == [pending |-> FALSE]
NoEntry == [present |-> FALSE]

VARIABLES
  user,                \* App.user (id of the signed-in user, or NoUser)
  sessionId,           \* App.currentSessionId, the sessionId prop
  messages,            \* ChatInterface.messages
  isLoading,           \* ChatInterface.isLoading
  error,               \* ChatInterface.error
  identifiedEntities,  \* ChatInterface.identifiedEntities (live slot)
  showSaveDialog,      \* ChatInterface.showSaveDialog
  isSaving,            \* ChatInterface.isSaving
  cache,               \* localStorage entry unsaved_chat_<user.id>
  call,                \* the running sendMessageContent invocation
  histPending,         \* session ids whose getChatHistory call is outstanding
  saveReq,             \* the outstanding saveChatSession call
  store,               \* Remote Conversation Store: session id -> records
  now,                 \* Date.now()
  nextJob,             \* number of accepted submissions: the last message_id
  entFired,            \* history: arguments of the onEntities calls of the job
  entSeen,             \* history: entities of the qualifying responses of the job
  turns,               \* history: turns ended and resolved since the mount
  orphans,             \* jobs whose poll runs on in an unmounted ChatInterface
  logoutPending,       \* App.handleLogout waits for authHelpers.signOut()
  pendingDeletes       \* jobs whose deletePendingMessage call is outstanding

vars == <<user, sessionId, messages, isLoading, error, identifiedEntities,
          showSaveDialog, isSaving, cache, call, histPending, saveReq, store,
          now, nextJob, entFired, entSeen, turns, orphans, logoutPending, pendingDeletes>>

\* ------------------------------------------------------------- messages
IsTemp(m) == m.id[1] = "temp"
IsAnswered(m) == ~m.isUser /\ m.response # ""

\* faulty variant: on equal timestamps the assistant message is put first
compareAssistantFirst(a, b) ==
  IF a.timestamp # b.timestamp THEN a.timestamp - b.timestamp
  ELSE IF a.isUser /\ ~b.isUser THEN 1
  ELSE IF ~a.isUser /\ b.isUser THEN -1
  ELSE 0

\* the comparator of both sorts: a - b < 0, = 0, > 0
compare(a, b) ==
  IF a.timestamp # b.timestamp THEN a.timestamp - b.timestamp
  ELSE IF a.isUser /\ ~b.isUser THEN -1
  ELSE IF ~a.isUser /\ b.isUser THEN 1
  ELSE 0

\* Array.prototype.sort is stable: insert each element after the last
\* element that does not compare greater than it
RECURSIVE Insert(_, _)
Insert(s, m) ==
  IF s = <<>> THEN <<m>>
  ELSE IF compare(s[Len(s)], m) > 0
       THEN Append(Insert(SubSeq(s, 1, Len(s) - 1), m), s[Len(s)])
       ELSE Append(s, m)

\* faulty variant: the list is left in the order it has
SortMessagesKeepsOrder(s) == s

RECURSIVE SortMessages(_)
SortMessages(s) ==
  IF s = <<>> THEN <<>>
  ELSE Insert(SortMessages(SubSeq(s, 1, Len(s) - 1)), s[Len(s)])

RemoveById(s, id) == SelectSeq(s, LAMBDA m : m.id # id)

\* ------------------------------------------------------- local storage
\* JSON.stringify / JSON.parse of the message array: every field of a
\* message is a string, a number, a boolean or null, which both keep
JSONstringify(msgs) == [present |-> TRUE, json |-> msgs]
JSONparse(entry) == entry.json

getUnsavedChatKey(u) == u # NoUser

saveUnsavedChatToStorage(msgs, u, sid, c) ==
  IF getUnsavedChatKey(u) /\ sid = NoSession THEN JSONstringify(msgs) ELSE c

\* loadUnsavedChatFromStorage: the parsed entry, or <<>> standing for null
loadUnsavedChatFromStorage(u, sid, c) ==
  IF getUnsavedChatKey(u) /\ sid = NoSession /\ c.present
  THEN JSONparse(c) ELSE <<>>

\* faulty variant: the entry is not removed
clearUnsavedChatFromStorageKeeps(u, c) == c

clearUnsavedChatFromStorage(u, c) ==
  IF getUnsavedChatKey(u) THEN NoEntry ELSE c

\* faulty variant: the list is appended to the entry
PersistEffectAppends(msgs, u, sid, c) ==
  IF sid = NoSession /\ u # NoUser
  THEN IF c.present THEN JSONstringify(JSONparse(c) \o msgs)
       ELSE JSONstringify(msgs)
  ELSE c

\* faulty variant: the session id is not consulted
PersistEffectAnySession(msgs, u, sid, c) ==
  IF u # NoUser THEN JSONstringify(msgs) ELSE c

\* the persist effect, run after every change of messages, sessionId, user
PersistEffect(msgs, u, sid, c) ==
  IF sid = NoSession /\ u # NoUser
  THEN saveUnsavedChatToStorage(msgs, u, sid, c) ELSE c

\* ------------------------------------------------- remote conversation store
SessionIds == {"s1", "s2"}

\* the history of the session that exists from the start: one exchange,
\* stored assistant record first, both records with the same timestamp
InitialHistory ==
  << [id |-> <<"db", 1>>, content |-> "q1", response |-> "A1",
      route_used |-> "sql", timestamp |-> 3, isUser |-> FALSE,
      identified_entities |-> NoEnt],
     [id |-> <<"db", 2>>, content |-> "q1", response |-> "",
      route_used |-> "", timestamp |-> 3, isUser |-> TRUE,
      identified_entities |-> NoEnt] >>

Reverse(s) == [i \in 1..Len(s) |-> s[Len(s) + 1 - i]]

\* saveChatSession on the backend: the batch is kept under a new session id,
\* every record under a store-assigned id
StoredRecord(m) == [m EXCEPT !.id = <<"db_" \o m.id[1], m.id[2]>>]
StoreBatch(batch) == [i \in 1..Len(batch) |-> StoredRecord(batch[i])]

\* getChatHistory: the records of the session, in no guaranteed order
HistoryAnswers(s) == {store[s], Reverse(store[s])}

\* ------------------------------------------------------------ bootstrap
Init ==
  /\ user = "u1"
  /\ sessionId = NoSession
  /\ messages = <<>>
  /\ isLoading = FALSE
  /\ error = ""
  /\ identifiedEntities = NoEnt
  /\ showSaveDialog = FALSE
  /\ isSaving = FALSE
  /\ cache = JSONstringify(<<>>)
  /\ call = NoCall
  /\ histPending = {}
  /\ saveReq = NoReq
  /\ store = [s \in {"s1"} |-> InitialHistory]
  /\ now = 0
  /\ nextJob = 0
  /\ entFired = <<>>
  /\ entSeen = <<>>
  /\ turns = [ended |-> 0, resolved |-> 0, late |-> 0]
  /\ orphans = {}
  /\ logoutPending = FALSE
  /\ pendingDeletes = {}

\* the no-session branch of loadHistory: the list it sets
LoadHistoryLocal(prevRef, u, c) ==
  IF prevRef # NoSession
  THEN <<>>                                        \* isNewConversation
  ELSE loadUnsavedChatFromStorage(u, NoSession, c)

\* A fresh ChatInterface instance mounts with props (u, sid) over the
\* storage entry c.  The effects run in the order they are declared: the
\* persist effect first, with the initial empty list, then loadHistory.
MountCache(u, sid, c) ==
  IF sid # NoSession
  THEN clearUnsavedChatFromStorage(u, PersistEffect(<<>>, u, sid, c))
  ELSE PersistEffect(LoadHistoryLocal(NoSession, u, PersistEffect(<<>>, u, sid, c)),
                     u, sid, PersistEffect(<<>>, u, sid, c))

MountMessages(u, sid, c) ==
  IF sid # NoSession THEN <<>>
  ELSE LoadHistoryLocal(NoSession, u, PersistEffect(<<>>, u, sid, c))

MountAs(u, sid, c) ==
  /\ messages' = MountMessages(u, sid, c)
  /\ cache' = MountCache(u, sid, c)
  /\ histPending' = IF sid # NoSession THEN {sid} ELSE {}
  /\ isLoading' = FALSE
  /\ error' = ""
  /\ identifiedEntities' = NoEnt
  /\ showSaveDialog' = FALSE
  /\ isSaving' = FALSE
  /\ call' = NoCall
  /\ entFired' = <<>>
  /\ entSeen' = <<>>
  /\ turns' = [ended |-> 0, resolved |-> 0, late |-> 0]

Mount(sid, c) == MountAs(user, sid, c)

\* the instance is unmounted: nothing cancels a running sendMessageContent,
\* whose poll goes on; the jobs then polled by unmounted instances
Unmounted ==
  IF call # NoCall THEN orphans \cup {call.message_id} ELSE orphans

\* the browser reloads the page: App starts over without a session id, the
\* storage entry survives, every outstanding call of the old page is gone
Reload ==
  /\ user # NoUser
  /\ sessionId' = NoSession
  /\ Mount(NoSession, cache)
  /\ saveReq' = NoReq
  /\ orphans' = {}
  /\ logoutPending' = FALSE
  /\ UNCHANGED <<user, store, now, nextJob>>
  /\ pendingDeletes' = {}

\* App.handleNewSession(null): "Nova conversa"
handleNewSession ==
  /\ user # NoUser
  /\ sessionId' = NoSession
  /\ Mount(NoSession, NoEntry)
  /\ orphans' = Unmounted
  /\ UNCHANGED <<logoutPending, user, saveReq, store, now, nextJob>>
  /\ UNCHANGED pendingDeletes

\* ------------------------------------------------------------ job status
\* the answers getMessageStatus can bring for a job
StatusResponses ==
  [status : {"pending", "entities_ready"},
   identified_entities : Entities \cup {NoEnt},
   response : {""}, error_message : {""}, route_used : {"sql"}]
  \cup
  [status : {"complete"}, identified_entities : {NoEnt, "E1"},
   response : Answers, error_message : {""}, route_used : {"sql"}]
  \cup
  [status : {"error"}, identified_entities : {NoEnt},
   response : {""}, error_message : ErrorMessages, route_used : {"sql"}]

\* faulty variant: the entitiesReceived flag is not consulted
FiresOnEntitiesAgain(entitiesReceived, status) ==
  /\ status.identified_entities # NoEnt
  /\ status.status \in {"entities_ready", "complete"}

\* faulty variant: the entities of a complete response are not reported
FiresOnEntitiesReadyOnly(entitiesReceived, status) ==
  /\ ~entitiesReceived
  /\ status.identified_entities # NoEnt
  /\ status.status = "entities_ready"

\* sendMessageWithPolling: the condition under which poll calls onEntities
FiresOnEntities(entitiesReceived, status) ==
  /\ ~entitiesReceived
  /\ status.identified_entities # NoEnt
  /\ status.status \in {"entities_ready", "complete"}

\* faulty variant: a failed job does not end the poll
ResolvesOnCompleteOnly(status) == status.status = "complete"

\* sendMessageWithPolling: the status values on which poll resolves
Resolves(status) == status.status \in {"complete", "error"}

\* faulty variant: a failed job always resolves with the fallback text
ResolvedResponseFallback(status, message_id, t) ==
  IF status.status = "complete"
  THEN [id |-> message_id,
        response |-> status.response,
        route_used |-> IF status.route_used # "" THEN status.route_used ELSE "unknown",
        timestamp |-> t,
        identified_entities |-> status.identified_entities]
  ELSE [id |-> message_id,
        response |-> FallbackError,
        route_used |-> "error",
        timestamp |-> t,
        identified_entities |-> NoEnt]

\* sendMessageWithPolling: the object poll resolves with
ResolvedResponse(status, message_id, t) ==
  IF status.status = "complete"
  THEN [id |-> message_id,
        response |-> status.response,
        route_used |-> IF status.route_used # "" THEN status.route_used ELSE "unknown",
        timestamp |-> t,
        identified_entities |-> status.identified_entities]
  ELSE [id |-> message_id,
        response |-> IF status.error_message # "" THEN status.error_message
                     ELSE FallbackError,
        route_used |-> "error",
        timestamp |-> t,
        identified_entities |-> NoEnt]

\* sendMessageWithPolling: the timeout check at the head of poll
TimedOut(t, pollStartTime) == t - pollStartTime > MaxPollTime

\* ------------------------------------------------------ sendMessageContent
\* faulty variant: the loading flag is not consulted
RejectsBlankOnly(messageContent, loading) == messageContent = ""

\* the guard at the head of sendMessageContent: TRUE when the call returns
\* at once
Rejects(messageContent, loading) == messageContent = "" \/ loading

\* faulty variant: the message of the user gets a final id at submission
userMessageFinalId(messageContent, t) ==
  [id |-> <<"job_user", t>>, content |-> messageContent, response |-> "",
   route_used |-> "", timestamp |-> t, isUser |-> TRUE,
   identified_entities |-> NoEnt]

\* sendMessageContent: the temporary message of the user
userMessage(messageContent, t) ==
  [id |-> <<"temp", t>>, content |-> messageContent, response |-> "",
   route_used |-> "", timestamp |-> t, isUser |-> TRUE,
   identified_entities |-> NoEnt]

userMessageFromDb(messageContent, response) ==
  [id |-> <<"job_user", response.id>>, content |-> messageContent,
   response |-> "", route_used |-> "", timestamp |-> response.timestamp,
   isUser |-> TRUE, identified_entities |-> NoEnt]

assistantMessage(messageContent, response) ==
  [id |-> <<"job", response.id>>, content |-> messageContent,
   response |-> response.response, route_used |-> response.route_used,
   timestamp |-> response.timestamp, isUser |-> FALSE,
   identified_entities |-> response.identified_entities]

\* faulty variant: the temporary message is not filtered out on commit
CommitMessagesKeepTemp(prev, tempId, messageContent, response) ==
  SortMessages(prev \o << userMessageFromDb(messageContent, response),
                          assistantMessage(messageContent, response) >>)

\* faulty variant: the entities of the response are written on every
\* assistant message of the list
CommitMessagesOverwritesEntities(prev, tempId, messageContent, response) ==
  LET merged == SortMessages(RemoveById(prev, tempId)
                  \o << userMessageFromDb(messageContent, response),
                        assistantMessage(messageContent, response) >>)
  IN [i \in 1..Len(merged) |->
        IF merged[i].isUser THEN merged[i]
        ELSE [merged[i] EXCEPT
                !.identified_entities = response.identified_entities]]

\* the setMessages updater run when the poll resolves
CommitMessages(prev, tempId, messageContent, response) ==
  SortMessages(RemoveById(prev, tempId)
               \o << userMessageFromDb(messageContent, response),
                     assistantMessage(messageContent, response) >>)

\* faulty variant: the catch block leaves the list as it is
CatchMessagesKeep(prev, tempId) == prev

\* the setMessages updater of the catch block
CatchMessages(prev, tempId) == RemoveById(prev, tempId)

\* faulty variant: the answer is passed on whole
substringWhole(str, n) == str

\* String.prototype.substring(0, n)
substring(str, n) == SubSeq(str, 1, IF Len(str) < n THEN Len(str) ELSE n)

\* the assistant messages previousContext is built from
assistantMessages(msgs) ==
  SelectSeq(msgs, LAMBDA msg : ~msg.isUser /\ msg.response # "")

\* the previous_context of the start request; entities stands for the
\* object built from lastAssistant.identified_entities (NoEnt: all empty)
previousContext(msgs) ==
  IF Len(assistantMessages(msgs)) > 0
  THEN LET lastAssistant == assistantMessages(msgs)[Len(assistantMessages(msgs))]
       IN [question |-> lastAssistant.content,
           response |-> substring(lastAssistant.response, ContextChars),
           route |-> lastAssistant.route_used,
           entities |-> lastAssistant.identified_entities]
  ELSE NoContext

\* faulty variant: a submission leaves the live entity slot as it is
SubmitKeepsEntities(q) ==
  /\ user # NoUser
  /\ ~Rejects(q, isLoading)
  /\ nextJob < MaxJobs
  /\ messages' = Append(messages, userMessage(q, now))
  /\ isLoading' = TRUE
  /\ error' = ""
  /\ call' = [pc |-> "start", content |-> q, tempId |-> <<"temp", now>>,
              sessionId |-> sessionId, message_id |-> nextJob + 1,
              entitiesReceived |-> FALSE, pollStartTime |-> 0, polls |-> 0,
              listBefore |-> messages,
              previousContext |-> previousContext(messages)]
  /\ nextJob' = nextJob + 1
  /\ cache' = PersistEffect(messages', user, sessionId, cache)
  /\ entFired' = <<>>
  /\ entSeen' = <<>>
  /\ UNCHANGED <<logoutPending, orphans, user, sessionId, identifiedEntities,
                 showSaveDialog, isSaving, histPending, saveReq, store, now,
                 turns>>
  /\ UNCHANGED pendingDeletes

\* form submit or welcome-chip click with the text q ("" is a blank input)
Submit(q) ==
  /\ user # NoUser
  /\ ~Rejects(q, isLoading)
  /\ nextJob < MaxJobs
  /\ messages' = Append(messages, userMessage(q, now))
  /\ isLoading' = TRUE
  /\ error' = ""
  /\ identifiedEntities' = NoEnt
  /\ call' = [pc |-> "start", content |-> q, tempId |-> <<"temp", now>>,
              sessionId |-> sessionId, message_id |-> nextJob + 1,
              entitiesReceived |-> FALSE, pollStartTime |-> 0, polls |-> 0,
              listBefore |-> messages,
              previousContext |-> previousContext(messages)]
  /\ nextJob' = nextJob + 1
  /\ cache' = PersistEffect(messages', user, sessionId, cache)
  /\ entFired' = <<>>
  /\ entSeen' = <<>>
  /\ UNCHANGED <<logoutPending, orphans, user, sessionId, showSaveDialog, isSaving, histPending,
                 saveReq, store, now, turns>>
  /\ UNCHANGED pendingDeletes

SubmitRejected(q) ==
  /\ user # NoUser
  /\ Rejects(q, isLoading)
  /\ UNCHANGED <<logoutPending, orphans, user, sessionId, messages, isLoading, error,
                 identifiedEntities, showSaveDialog, isSaving, cache, call,
                 histPending, saveReq, store, now, nextJob, entFired, entSeen, turns>>
  /\ UNCHANGED pendingDeletes

\* history: 1 when the turn that ends was submitted under another session id
\* than the one that is set now
Late == IF call.sessionId # sessionId THEN 1 ELSE 0

\* faulty variant: there is no finally block, the loading flag stays set
CatchWithoutFinally(message) ==
  /\ error' = message
  /\ messages' = CatchMessages(messages, call.tempId)
  /\ isLoading' = isLoading
  /\ cache' = PersistEffect(messages', user, sessionId, cache)
  /\ call' = NoCall
  /\ turns' = [turns EXCEPT !.ended = @ + 1, !.late = @ + Late]

\* faulty variant: the catch block records no error
CatchSilently(message) ==
  /\ error' = ""
  /\ messages' = CatchMessages(messages, call.tempId)
  /\ isLoading' = FALSE
  /\ cache' = PersistEffect(messages', user, sessionId, cache)
  /\ call' = NoCall
  /\ turns' = [turns EXCEPT !.ended = @ + 1, !.late = @ + Late]

\* the catch and finally blocks of sendMessageContent
Catch(message) ==
  /\ error' = message
  /\ messages' = CatchMessages(messages, call.tempId)
  /\ isLoading' = FALSE
  /\ cache' = PersistEffect(messages', user, sessionId, cache)
  /\ call' = NoCall
  /\ turns' = [turns EXCEPT !.ended = @ + 1, !.late = @ + Late]

\* startChat answers with a message_id; poll runs for the first time
StartReturns ==
  /\ call.pc = "start"
  /\ now + 1 <= MaxTime
  /\ now' = now + 1
  /\ call' = [call EXCEPT !.pc = "status", !.pollStartTime = now', !.polls = 1]
  /\ UNCHANGED <<logoutPending, orphans, user, sessionId, messages, isLoading, error,
                 identifiedEntities, showSaveDialog, isSaving, cache,
                 histPending, saveReq, store, nextJob, entFired, entSeen, turns>>
  /\ UNCHANGED pendingDeletes

\* startChat throws (network error, or a response that is not ok)
StartFails ==
  /\ call.pc = "start"
  /\ Catch(StartTransportError)
  /\ UNCHANGED <<logoutPending, orphans, user, sessionId, identifiedEntities, showSaveDialog,
                 isSaving, histPending, saveReq, store, now, nextJob,
                 entFired, entSeen>>
  /\ UNCHANGED pendingDeletes

\* setTimeout(poll, POLL_INTERVAL) fires: the timeout check, then the
\* next getMessageStatus call
PollTimer ==
  /\ call.pc = "timer"
  /\ IF TimedOut(now, call.pollStartTime)
     THEN /\ Catch(TimeoutError)
     ELSE /\ call' = [call EXCEPT !.pc = "status"]
          /\ UNCHANGED <<messages, isLoading, error, cache, turns>>
  /\ UNCHANGED <<logoutPending, orphans, user, sessionId, identifiedEntities, showSaveDialog,
                 isSaving, histPending, saveReq, store, now, nextJob,
                 entFired, entSeen>>
  /\ UNCHANGED pendingDeletes

\* faulty variant: a status call that throws is retried at the next timer
StatusFailsRetries ==
  /\ call.pc = "status"
  /\ call' = [call EXCEPT !.pc = "timer"]
  /\ UNCHANGED <<logoutPending, orphans, user, sessionId, messages, isLoading,
                 error, identifiedEntities, showSaveDialog, isSaving, cache,
                 histPending, saveReq, store, now, nextJob, entFired, entSeen,
                 turns>>
  /\ UNCHANGED pendingDeletes

\* getMessageStatus throws: poll rejects
StatusFails ==
  /\ call.pc = "status"
  /\ Catch(StatusTransportError)
  /\ UNCHANGED <<logoutPending, orphans, user, sessionId, identifiedEntities, showSaveDialog,
                 isSaving, histPending, saveReq, store, now, nextJob,
                 entFired, entSeen>>
  /\ UNCHANGED pendingDeletes

\* getMessageStatus answers with status
StatusReturns(status) ==
  /\ call.pc = "status"
  /\ now + 1 <= MaxTime
  /\ now' = now + 1
  /\ entSeen' = IF /\ status.status \in {"entities_ready", "complete"}
                   /\ status.identified_entities # NoEnt
                THEN Append(entSeen, status.identified_entities) ELSE entSeen
  /\ IF FiresOnEntities(call.entitiesReceived, status)
     THEN /\ identifiedEntities' = status.identified_entities
          /\ entFired' = Append(entFired, status.identified_entities)
     ELSE UNCHANGED <<identifiedEntities, entFired>>
  /\ IF Resolves(status)
     THEN /\ messages' = CommitMessages(messages, call.tempId, call.content,
                           ResolvedResponse(status, call.message_id, now'))
          /\ isLoading' = FALSE
          /\ cache' = PersistEffect(messages', user, sessionId, cache)
          /\ call' = NoCall
          /\ turns' = [ended |-> turns.ended + 1,
                        resolved |-> turns.resolved + 1,
                        late |-> turns.late + Late]
     ELSE /\ call' = [call EXCEPT
                        !.pc = "timer",
                        !.entitiesReceived =
                           @ \/ FiresOnEntities(call.entitiesReceived, status)]
          /\ UNCHANGED <<messages, isLoading, cache, turns>>
  /\ UNCHANGED <<logoutPending, orphans, user, sessionId, error, showSaveDialog, isSaving,
                 histPending, saveReq, store, nextJob>>
  /\ pendingDeletes' = IF Resolves(status)
                     THEN pendingDeletes \cup {call.message_id}
                     ELSE pendingDeletes

\* the poll of job j, still running for an unmounted instance, resolves or
\* rejects, and the DELETE call it may issue ends: the state updates of its
\* sendMessageContent (commit, catch, finally) address a component that no
\* longer exists and change nothing
OrphanPollEnds(j) ==
  /\ j \in orphans
  /\ orphans' = orphans \ {j}
  /\ UNCHANGED <<logoutPending, user, sessionId, messages, isLoading, error,
                 identifiedEntities, showSaveDialog, isSaving, cache, call,
                 histPending, saveReq, store, now, nextJob, entFired, entSeen,
                 turns>>
  /\ UNCHANGED pendingDeletes

\* ------------------------------------------------- deletePendingMessage
\* the DELETE call for job j answers, ok or not: when it is not ok the
\* function logs a warning and returns; nothing awaits the call
deletePendingMessageReturns(j, ok) ==
  /\ j \in pendingDeletes
  /\ pendingDeletes' = pendingDeletes \ {j}
  /\ UNCHANGED <<logoutPending, orphans, user, sessionId, messages, isLoading,
                 error, identifiedEntities, showSaveDialog, isSaving, cache,
                 call, histPending, saveReq, store, now, nextJob, entFired,
                 entSeen, turns>>

\* faulty variant: a DELETE call that throws is reported as an inline error
deletePendingMessageFailsLoudly(j) ==
  /\ j \in pendingDeletes
  /\ pendingDeletes' = pendingDeletes \ {j}
  /\ error' = StatusTransportError
  /\ UNCHANGED <<logoutPending, orphans, user, sessionId, messages, isLoading,
                 identifiedEntities, showSaveDialog, isSaving, cache,
                 call, histPending, saveReq, store, now, nextJob, entFired,
                 entSeen, turns>>

\* the DELETE call for job j throws: the rejection is swallowed by the
\* .catch(() => {}) of the caller
deletePendingMessageFails(j) ==
  /\ j \in pendingDeletes
  /\ pendingDeletes' = pendingDeletes \ {j}
  /\ UNCHANGED <<logoutPending, orphans, user, sessionId, messages, isLoading,
                 error, identifiedEntities, showSaveDialog, isSaving, cache,
                 call, histPending, saveReq, store, now, nextJob, entFired,
                 entSeen, turns>>

\* ------------------------------------------------------------- sessions
\* App.handleSessionChange(s): a saved session is opened.  The same
\* ChatInterface instance runs loadHistory for s: the storage entry is
\* cleared and getChatHistory(s) is called.
handleSessionChange(s) ==
  /\ user # NoUser
  /\ s \in DOMAIN store
  /\ s # sessionId
  /\ sessionId' = s
  /\ cache' = clearUnsavedChatFromStorage(user, cache)
  /\ histPending' = histPending \cup {s}
  /\ UNCHANGED <<logoutPending, orphans, user, messages, isLoading, error, identifiedEntities,
                 showSaveDialog, isSaving, call, saveReq, store, now, nextJob,
                 entFired, entSeen, turns>>
  /\ UNCHANGED pendingDeletes

\* getChatHistory(s) answers with history: loadHistory sorts and sets it
HistoryReturns(s, history) ==
  /\ s \in histPending
  /\ histPending' = histPending \ {s}
  /\ messages' = SortMessages(history)
  /\ cache' = PersistEffect(messages', user, sessionId, cache)
  /\ UNCHANGED <<logoutPending, orphans, user, sessionId, isLoading, error, identifiedEntities,
                 showSaveDialog, isSaving, call, saveReq, store, now, nextJob,
                 entFired, entSeen, turns>>
  /\ UNCHANGED pendingDeletes

\* getChatHistory(s) throws: loadHistory logs the error
HistoryFails(s) ==
  /\ s \in histPending
  /\ histPending' = histPending \ {s}
  /\ UNCHANGED <<logoutPending, orphans, user, sessionId, messages, isLoading, error,
                 identifiedEntities, showSaveDialog, isSaving, cache, call,
                 saveReq, store, now, nextJob, entFired, entSeen, turns>>
  /\ UNCHANGED pendingDeletes

\* ----------------------------------------------------------------- save
\* hasCompleteConversations / the count reported through onMessagesChange
completeConversations(msgs) ==
  Len(SelectSeq(msgs, LAMBDA m : ~m.isUser /\ m.response # ""))

\* the save button of SessionManager (shown while isUnsaved) is clicked
OpenSaveDialog ==
  /\ user # NoUser
  /\ sessionId = NoSession
  /\ completeConversations(messages) > 0
  /\ Len(messages) > 0
  /\ ~showSaveDialog
  /\ showSaveDialog' = TRUE
  /\ UNCHANGED <<logoutPending, orphans, user, sessionId, messages, isLoading, error,
                 identifiedEntities, isSaving, cache, call, histPending,
                 saveReq, store, now, nextJob, entFired, entSeen, turns>>
  /\ UNCHANGED pendingDeletes

\* handleSaveChat: the filter that builds the batch
completeMessages(msgs) ==
  SelectSeq(msgs, LAMBDA msg :
    IF ~msg.isUser /\ msg.response # "" THEN TRUE
    ELSE IF msg.isUser
         THEN \E i \in 1..Len(msgs) :
                ~msgs[i].isUser /\ msgs[i].content = msg.content
         ELSE FALSE)

\* handleSaveChat up to the saveChatSession call (the title is not blank)
handleSaveChat ==
  /\ user # NoUser
  /\ showSaveDialog
  /\ ~isSaving
  /\ ~saveReq.pending
  /\ IF completeMessages(messages) = <<>>
     THEN /\ error' = NoSaveMessages
          /\ UNCHANGED <<isSaving, saveReq>>
     ELSE /\ isSaving' = TRUE
          /\ saveReq' = [pending |-> TRUE, batch |-> completeMessages(messages)]
          /\ UNCHANGED error
  /\ UNCHANGED <<logoutPending, orphans, user, sessionId, messages, isLoading, identifiedEntities,
                 showSaveDialog, cache, call, histPending, store, now,
                 nextJob, entFired, entSeen, turns>>
  /\ UNCHANGED pendingDeletes

\* saveChatSession answers with the new session s: the storage entry is
\* cleared, App.handleSessionSaved(s) sets the session id, and loadHistory
\* runs for s
SaveReturns(s) ==
  /\ saveReq.pending
  /\ s \in SessionIds \ DOMAIN store
  /\ store' = [x \in DOMAIN store \cup {s} |->
                 IF x = s THEN StoreBatch(saveReq.batch) ELSE store[x]]
  /\ saveReq' = NoReq
  /\ showSaveDialog' = FALSE
  /\ isSaving' = FALSE
  /\ sessionId' = s
  /\ cache' = clearUnsavedChatFromStorage(user, cache)
  /\ histPending' = histPending \cup {s}
  /\ UNCHANGED <<logoutPending, orphans, user, messages, isLoading, error, identifiedEntities, call,
                 now, nextJob, entFired, entSeen, turns>>
  /\ UNCHANGED pendingDeletes

\* faulty variant: a failed save removes the storage entry as a successful
\* one does
SaveFailsClearsCache ==
  /\ saveReq.pending
  /\ saveReq' = NoReq
  /\ error' = SaveError
  /\ isSaving' = FALSE
  /\ cache' = clearUnsavedChatFromStorage(user, cache)
  /\ UNCHANGED <<logoutPending, orphans, user, sessionId, messages, isLoading,
                 identifiedEntities, showSaveDialog, call, histPending, store,
                 now, nextJob, entFired, entSeen, turns, pendingDeletes>>

\* saveChatSession throws
SaveFails ==
  /\ saveReq.pending
  /\ saveReq' = NoReq
  /\ error' = SaveError
  /\ isSaving' = FALSE
  /\ UNCHANGED <<logoutPending, orphans, user, sessionId, messages, isLoading, identifiedEntities,
                 showSaveDialog, cache, call, histPending, store, now,
                 nextJob, entFired, entSeen, turns>>
  /\ UNCHANGED pendingDeletes

\* --------------------------------------------------------------- logout
\* App.handleLogout up to the await: the storage entry is removed and
\* authHelpers.signOut() is called; the chat stays mounted meanwhile
handleLogout ==
  /\ user # NoUser
  /\ ~logoutPending
  /\ cache' = NoEntry
  /\ logoutPending' = TRUE
  /\ UNCHANGED <<orphans, user, sessionId, messages, isLoading, error,
                 identifiedEntities, showSaveDialog, isSaving, call,
                 histPending, saveReq, store, now, nextJob, entFired, entSeen,
                 turns>>
  /\ UNCHANGED pendingDeletes

\* signOut() resolves or throws: either way user and session id are set to
\* null, and App no longer renders ChatInterface
SignOutReturns ==
  /\ logoutPending
  /\ logoutPending' = FALSE
  /\ user' = NoUser
  /\ sessionId' = NoSession
  /\ orphans' = Unmounted
  /\ messages' = <<>>
  /\ isLoading' = FALSE
  /\ error' = ""
  /\ identifiedEntities' = NoEnt
  /\ showSaveDialog' = FALSE
  /\ isSaving' = FALSE
  /\ call' = NoCall
  /\ histPending' = {}
  /\ entFired' = <<>>
  /\ entSeen' = <<>>
  /\ turns' = [ended |-> 0, resolved |-> 0, late |-> 0]
  /\ UNCHANGED <<cache, saveReq, store, now, nextJob>>
  /\ UNCHANGED pendingDeletes

\* the user signs in again: ChatInterface mounts for u
handleLogin(u) ==
  /\ user = NoUser
  /\ user' = u
  /\ MountAs(u, sessionId, cache)
  /\ UNCHANGED <<logoutPending, orphans, sessionId, saveReq, store, now, nextJob>>
  /\ UNCHANGED pendingDeletes

\* ---------------------------------------------------------- specification
\* the status answers of a job that discloses E1 and then completes or fails
CoreStatusResponses ==
  {r \in StatusResponses :
     \/ r.status = "entities_ready" /\ r.identified_entities = "E1"
     \/ r.status = "complete" /\ r.identified_entities = "E1" /\ r.response = "A1"
     \/ r.status = "error" /\ r.error_message = ""}

Next ==
  \/ \E q \in {"q1"} : Submit(q)
  \/ \E q \in {"q1", ""} : SubmitRejected(q)
  \/ StartReturns
  \/ StartFails
  \/ PollTimer
  \/ StatusFails
  \/ \E status \in CoreStatusResponses : StatusReturns(status)
  \/ Reload
  \/ handleNewSession
  \/ \E s \in SessionIds : handleSessionChange(s)
  \/ \E s \in histPending : \E history \in HistoryAnswers(s) : HistoryReturns(s, history)
  \/ \E s \in SessionIds : HistoryFails(s)
  \/ OpenSaveDialog
  \/ handleSaveChat
  \/ \E s \in SessionIds : SaveReturns(s)
  \/ SaveFails
  \/ \E j \in 1..MaxJobs : OrphanPollEnds(j)

Spec == Init /\ [][Next]_vars

\* the turns of one unsaved conversation, without saved sessions
NextTurns ==
  \/ \E q \in Contents : Submit(q)
  \/ \E q \in Contents \cup {""} : SubmitRejected(q)
  \/ StartReturns
  \/ StartFails
  \/ PollTimer
  \/ StatusFails
  \/ \E status \in StatusResponses : StatusReturns(status)
  \/ Reload
  \/ handleNewSession
  \/ \E j \in 1..MaxJobs : OrphanPollEnds(j)
  \/ \E j \in 1..MaxJobs : \E ok \in BOOLEAN : deletePendingMessageReturns(j, ok)
  \/ \E j \in 1..MaxJobs : deletePendingMessageFails(j)

SpecTurns == Init /\ [][NextTurns]_vars

\* the turns of one unsaved conversation, with logout and login
NextLogout ==
  \/ \E q \in {"q1"} : Submit(q)
  \/ \E q \in {"q1", ""} : SubmitRejected(q)
  \/ StartReturns
  \/ StartFails
  \/ PollTimer
  \/ StatusFails
  \/ \E status \in CoreStatusResponses : StatusReturns(status)
  \/ handleLogout
  \/ SignOutReturns
  \/ handleLogin("u1")
  \/ \E j \in 1..MaxJobs : OrphanPollEnds(j)

SpecLogout == Init /\ [][NextLogout]_vars

\* the turns of one page and one conversation, where every call that is
\* outstanding is answered or fails in the end and every timer fires
NextLive ==
  \/ \E q \in Contents : Submit(q)
  \/ \E q \in Contents \cup {""} : SubmitRejected(q)
  \/ StartReturns
  \/ StartFails
  \/ PollTimer
  \/ StatusFails
  \/ \E status \in StatusResponses : StatusReturns(status)

SpecLive ==
  /\ Init /\ [][NextLive]_vars
  /\ WF_vars(StartReturns \/ StartFails)
  /\ WF_vars(StatusFails \/ \E status \in StatusResponses : StatusReturns(status))
  /\ WF_vars(PollTimer)

\* a stored session without any record (createSession keeps such a one)
EmptySession == "s0"

\* the page starts with the empty session in the store as well
InitSave ==
  /\ user = "u1"
  /\ sessionId = NoSession
  /\ messages = <<>>
  /\ isLoading = FALSE
  /\ error = ""
  /\ identifiedEntities = NoEnt
  /\ showSaveDialog = FALSE
  /\ isSaving = FALSE
  /\ cache = JSONstringify(<<>>)
  /\ call = NoCall
  /\ histPending = {}
  /\ saveReq = NoReq
  /\ store = [s \in {"s1", EmptySession} |->
                IF s = EmptySession THEN <<>> ELSE InitialHistory]
  /\ now = 0
  /\ nextJob = 0
  /\ entFired = <<>>
  /\ entSeen = <<>>
  /\ turns = [ended |-> 0, resolved |-> 0, late |-> 0]
  /\ orphans = {}
  /\ logoutPending = FALSE
  /\ pendingDeletes = {}

\* one unsaved conversation that is saved, with the save dialog left open
\* while the empty session is opened
NextSave ==
  \/ \E q \in {"q1"} : Submit(q)
  \/ StartReturns
  \/ StartFails
  \/ PollTimer
  \/ StatusFails
  \/ \E status \in CoreStatusResponses : StatusReturns(status)
  \/ OpenSaveDialog
  \/ handleSaveChat
  \/ \E s \in SessionIds : SaveReturns(s)
  \/ SaveFails
  \/ handleSessionChange(EmptySession)
  \/ \E s \in histPending : \E history \in HistoryAnswers(s) : HistoryReturns(s, history)
  \/ \E s \in histPending : HistoryFails(s)

SpecSave == InitSave /\ [][NextSave]_vars

\* ============================================================ properties
NumTemp(msgs) == Cardinality({i \in 1..Len(msgs) : IsTemp(msgs[i])})
CommittedList == SelectSeq(messages, LAMBDA m : ~IsTemp(m))
HasMessage(msgs, id) == \E i \in 1..Len(msgs) : msgs[i].id = id
MessageWithId(msgs, id) == msgs[CHOOSE i \in 1..Len(msgs) : msgs[i].id = id]

\* the poll of the turn rejects: a status call throws, or the ceiling is passed
PollRejected ==
  \/ StatusFails
  \/ PollTimer /\ TimedOut(now, call.pollStartTime)

\* C1: the list never holds two placeholders, and while a turn is in flight
\* (isLoading) no step adds a placeholder or has a further job started
AtMostOnePlaceholder == NumTemp(messages) <= 1
C1_SingleInFlightTurn ==
  /\ []AtMostOnePlaceholder
  /\ [][isLoading => /\ nextJob' = nextJob
                     /\ NumTemp(messages') <= NumTemp(messages)]_vars
C1_Witness ==
  /\ isLoading /\ call.pc = "status" /\ NumTemp(messages) = 1
  /\ nextJob = 1 /\ ENABLED SubmitRejected("q1")

C3_RestoreAfterReload ==
  [][(/\ Reload /\ user # NoUser /\ ~isLoading
       /\ cache.present /\ Len(JSONparse(cache)) >= 1)
       => (messages' = JSONparse(cache) /\ histPending' = {})]_vars

\* C4: onEntities is called at most once per job: with the entities of the
\* first response that has status entities_ready or complete and carries
\* entities, which then fill the live slot; later such responses call nothing
C4_PartialEventOnce ==
  /\ entFired = IF entSeen = <<>> THEN <<>> ELSE <<entSeen[1]>>
  /\ (entFired # <<>> => identifiedEntities = entSeen[1])
C4_Witness ==
  /\ Len(entSeen) >= 2 /\ Len(entFired) = 1 /\ entSeen[2] # entSeen[1]

\* C5 as stated: when the job completes after its partial event disclosed
\* entities, the committed assistant message has the job id, the answer of
\* the terminal response and the disclosed entities
C5_CommittedCarriesDisclosed ==
  [][\A status \in StatusResponses :
       (StatusReturns(status) /\ status.status = "complete" /\ entFired' # <<>>)
         => /\ HasMessage(messages', <<"job", call.message_id>>)
            /\ MessageWithId(messages', <<"job", call.message_id>>).response
                 = status.response
            /\ MessageWithId(messages', <<"job", call.message_id>>).identified_entities
                 = entFired'[1]]_vars

C7_NoPlaceholderWhenIdle == ~isLoading => NumTemp(messages) = 0
C7_Witness ==
  /\ ~isLoading /\ turns.ended = 2 /\ turns.resolved = 1
  /\ error = StatusTransportError /\ Len(messages) = 2

\* C8: a response with status error resolves the poll: the turn commits an
\* ordinary user/assistant pair whose answer is the error_message of the
\* response when it has one and the fallback text otherwise, no inline error
\* is set, and the job is neither polled again nor started again
C8_BackendFailureCommitted ==
  [][\A status \in StatusResponses :
       (StatusReturns(status) /\ status.status = "error")
         => /\ HasMessage(messages', <<"job", call.message_id>>)
            /\ HasMessage(messages', <<"job_user", call.message_id>>)
            /\ LET a == MessageWithId(messages', <<"job", call.message_id>>)
                   u == MessageWithId(messages', <<"job_user", call.message_id>>)
               IN /\ ~a.isUser /\ u.isUser
                  /\ a.content = call.content /\ u.content = call.content
                  /\ a.response = IF status.error_message # ""
                                  THEN status.error_message ELSE FallbackError
            /\ Len(messages') = Len(messages) + 1
            /\ error' = error
            /\ ~isLoading' /\ call' = NoCall /\ nextJob' = nextJob]_vars
C8_Witness ==
  /\ ~isLoading /\ call = NoCall /\ error = ""
  /\ \E i \in 1..Len(messages) :
       /\ ~messages[i].isUser /\ messages[i].route_used = "error"
       /\ messages[i].response = "Err1"
  /\ \E i \in 1..Len(messages) :
       /\ ~messages[i].isUser /\ messages[i].route_used = "error"
       /\ messages[i].response = FallbackError

\* C9: when the start call throws, the turn is aborted: the list is again
\* what it was before the submission, no assistant message is added, no
\* status call was or will be issued, the error text becomes the inline
\* error, loading ends and no job is started again
C9_StartFailureAborts ==
  [][StartFails
       => /\ messages' = call.listBefore
          /\ messages' = RemoveById(messages, call.tempId)
          /\ NumTemp(messages') = 0
          /\ call.polls = 0 /\ call' = NoCall
          /\ error' = StartTransportError
          /\ ~isLoading' /\ nextJob' = nextJob]_vars
C9_Witness ==
  /\ error = StartTransportError /\ ~isLoading /\ call = NoCall
  /\ turns.ended = 2 /\ turns.resolved = 1 /\ Len(messages) = 2

\* C10 as stated: the batch handed to saveChatSession holds no placeholder,
\* and every user message of it has its assistant message, with an answer,
\* in the batch
C10_BatchIsCommittedMessages ==
  saveReq.pending =>
    \A i \in 1..Len(saveReq.batch) :
      LET m == saveReq.batch[i] IN
      /\ ~IsTemp(m)
      /\ m.isUser => \E j \in 1..Len(saveReq.batch) :
                       LET a == saveReq.batch[j] IN
                       /\ IsAnswered(a) /\ a.content = m.content
                       /\ a.timestamp = m.timestamp

\* C11: when saveChatSession answers with the new session s, the storage
\* entry of the user is removed and the session id becomes s, the key under
\* which the store keeps the batch; and for as long as that session id stays
\* set the entry stays absent
C11_SaveClearsCache ==
  /\ [][\A s \in SessionIds :
          SaveReturns(s) => /\ cache' = NoEntry
                            /\ sessionId' = s
                            /\ s \notin DOMAIN store
                            /\ store'[s] = StoreBatch(saveReq.batch)]_vars
  /\ [][(sessionId # NoSession /\ ~cache.present /\ sessionId' = sessionId)
          => ~cache'.present]_vars
C11_Witness ==
  /\ sessionId = "s2" /\ "s2" \in DOMAIN store /\ saveReq = NoReq
  /\ ~cache.present /\ histPending = {}
  /\ messages = SortMessages(store["s2"]) /\ Len(messages) >= 2

\* msgs is ordered by non-decreasing timestamp, and of two neighbours with
\* the same timestamp an assistant message is not before a user message
IsOrdered(msgs) ==
  \A i \in 1..(Len(msgs) - 1) :
    /\ msgs[i].timestamp <= msgs[i + 1].timestamp
    /\ msgs[i].timestamp = msgs[i + 1].timestamp
         => ~(~msgs[i].isUser /\ msgs[i + 1].isUser)

\* a and b hold the same records, each as many times
SameRecords(a, b) ==
  /\ Len(a) = Len(b)
  /\ \A i \in 1..Len(a) :
       Cardinality({j \in 1..Len(a) : a[j] = a[i]})
         = Cardinality({j \in 1..Len(b) : b[j] = a[i]})

\* C12: opening a saved session removes the storage entry of the user, and
\* when the history of the session arrives the list becomes exactly the
\* records of that history, ordered by timestamp with the user message
\* before the assistant message on a tie, in whatever order they arrived
C12_OpenSessionSortedHistory ==
  /\ [][\A s \in SessionIds :
          handleSessionChange(s) => (cache' = NoEntry /\ sessionId' = s
                                     /\ s \in histPending')]_vars
  /\ [][\A s \in histPending : \A history \in HistoryAnswers(s) :
          HistoryReturns(s, history) => /\ IsOrdered(messages')
                                        /\ SameRecords(messages', history)
                                        /\ ~cache'.present]_vars
C12_Witness ==
  /\ sessionId = "s1" /\ histPending = {} /\ ~cache.present
  /\ messages = Reverse(InitialHistory)
  /\ ~IsOrdered(InitialHistory) /\ InitialHistory \in HistoryAnswers("s1")

\* C13: the previous_context of a start request is null exactly when the
\* list at submission holds no assistant message with an answer; otherwise
\* it carries the question, the route and the entities of the last such
\* message of the list and the first ContextChars characters of its answer
C13_PreviousContext ==
  call # NoCall =>
    LET L == call.listBefore
        answered == {i \in 1..Len(L) : ~L[i].isUser /\ L[i].response # ""}
    IN /\ (call.previousContext = NoContext) <=> (answered = {})
       /\ answered # {} =>
            LET k == CHOOSE i \in answered : \A j \in answered : j <= i
                ctx == call.previousContext
            IN /\ ctx.question = L[k].content
               /\ ctx.route = L[k].route_used
               /\ ctx.entities = L[k].identified_entities
               /\ Len(ctx.response) <= ContextChars
               /\ Len(ctx.response) = Len(L[k].response)
                    \/ Len(ctx.response) = ContextChars
               /\ ctx.response = SubSeq(L[k].response, 1, Len(ctx.response))
C13_Witness ==
  /\ call # NoCall /\ call.pc = "start" /\ call.message_id = 2
  /\ call.previousContext # NoContext
  /\ call.previousContext.question = "q1" /\ call.content = "q2"
  /\ call.listBefore[2].response = FallbackError
  /\ call.previousContext.response # FallbackError

C15_NoCacheInSession ==
  (sessionId # NoSession /\ user # NoUser) => ~cache.present
C15_Witness ==
  /\ sessionId # NoSession /\ user # NoUser /\ ~cache.present
  /\ ~isLoading /\ turns.late >= 1 /\ turns.resolved >= 1
  /\ \E i \in 1..Len(messages) : messages[i].id[1] = "job"

\* C16 as stated: once the logout has completed and no user is signed in,
\* the user who logged out has no storage entry
C16_LogoutClearsCache == user = NoUser => ~cache.present

\* C17: no step changes the entities of an assistant message that stays in
\* the list, and a status response that does not end the turn, such as the
\* one that discloses the entities of a later job, leaves the whole list as
\* it is and writes the live slot only
C17_EntitySnapshotImmutable ==
  /\ [][\A i \in 1..Len(messages) : \A j \in 1..Len(messages') :
          (~messages[i].isUser /\ messages'[j].id = messages[i].id)
            => messages'[j].identified_entities
                 = messages[i].identified_entities]_vars
  /\ [][\A status \in StatusResponses :
          (StatusReturns(status) /\ status.status \notin {"complete", "error"})
            => messages' = messages]_vars
C17_Witness ==
  /\ isLoading /\ call # NoCall /\ call.message_id = 2
  /\ entFired = <<"E2">> /\ identifiedEntities = "E2"
  /\ \E i \in 1..Len(messages) :
       /\ messages[i].id = <<"job", 1>>
       /\ messages[i].identified_entities = "E1"

\* the jobs whose start or status calls are outstanding or scheduled: the
\* job of the mounted instance and those of unmounted ones
PolledJobs ==
  orphans \cup (IF call # NoCall THEN {call.message_id} ELSE {})

\* C18 as stated: at most one job is being polled at any time
C18_OneJobPolled == Cardinality(PolledJobs) <= 1

\* C19 as stated: when a status response arrives for a turn that was
\* submitted under another session id than the one now set, neither the
\* pair of the turn is merged into the list nor its entities into the live
\* slot
C19_StaleTurnDiscarded ==
  [][\A status \in StatusResponses :
       (StatusReturns(status) /\ call.sessionId # sessionId)
         => /\ ~HasMessage(messages', <<"job", call.message_id>>)
            /\ ~HasMessage(messages', <<"job_user", call.message_id>>)
            /\ identifiedEntities' = identifiedEntities]_vars

\* C20: a status response with status complete or error ends the poll: the
\* call is over and no status call for its job follows, the job of a later
\* call being a new one; after any other response the same job waits for
\* the poll timer, and a status call is issued only by the start of the
\* poll or by that timer
C20_PollStopsAtTerminal ==
  /\ [][\A status \in StatusResponses :
          StatusReturns(status)
            => IF status.status \in {"complete", "error"}
               THEN call' = NoCall /\ ~isLoading'
               ELSE /\ call'.pc = "timer"
                    /\ call'.message_id = call.message_id]_vars
  /\ [][(call'.pc = "status" /\ call.pc # "status")
          => /\ call.pc \in {"start", "timer"}
             /\ call'.message_id = call.message_id]_vars
  /\ [][(call'.pc = "timer" /\ call.pc # "timer")
          => /\ call.pc = "status"
             /\ \E status \in StatusResponses :
                  /\ status.status \notin {"complete", "error"}
                  /\ StatusReturns(status)]_vars
  /\ [](call # NoCall => call.message_id = nextJob)
  /\ [][(call = NoCall /\ call' # NoCall)
          => call'.message_id = nextJob + 1]_vars
C20_Witness ==
  /\ call = NoCall /\ ~isLoading /\ turns.resolved = 1 /\ turns.ended = 1
  /\ now >= 3 /\ nextJob = 1
  /\ \E i \in 1..Len(messages) : messages[i].route_used = "error"

\* C21: when a status call throws, the poll rejects in that very step: the
\* call is over without a retry, no further status call is issued for the
\* job, and neither onEntities nor a commit happens in that step or later,
\* since both happen only in a step where a status call of a running poll
\* answers
C21_StatusFailureRejects ==
  /\ [][StatusFails
          => /\ call' = NoCall /\ ~isLoading'
             /\ error' = StatusTransportError
             /\ entFired' = entFired
             /\ identifiedEntities' = identifiedEntities
             /\ ~HasMessage(messages', <<"job", call.message_id>>)
             /\ nextJob' = nextJob /\ now' = now]_vars
  /\ [][(\/ Len(entFired') > Len(entFired)
         \/ \E j \in 1..MaxJobs : /\ HasMessage(messages', <<"job", j>>)
                                  /\ ~HasMessage(messages, <<"job", j>>))
          => /\ call # NoCall /\ call.pc = "status"
             /\ \E status \in StatusResponses : StatusReturns(status)]_vars
  /\ [][call = NoCall => (call' = NoCall \/ call'.message_id > nextJob)]_vars
C21_Witness ==
  /\ call = NoCall /\ ~isLoading /\ error = StatusTransportError
  /\ entFired = <<"E1">> /\ identifiedEntities = "E1"
  /\ messages = <<>> /\ turns.ended = 1 /\ turns.resolved = 0 /\ now >= 2

\* C22: onEntities is called only in a step where a status call of the
\* running poll answers, hence never after the poll has resolved; when the
\* first response with entities is the complete one, that step calls
\* onEntities once with these entities and then resolves and commits; and
\* when the poll resolves without any response having carried entities,
\* onEntities was never called, the live slot is empty and the turn commits
C22_PartialBeforeResolution ==
  /\ [][Len(entFired') > Len(entFired)
          => /\ call # NoCall /\ call.pc = "status" /\ isLoading
             /\ Len(entFired') = Len(entFired) + 1]_vars
  /\ [](call = NoCall => Len(entFired) <= 1)
  /\ [][\A status \in StatusResponses :
          (/\ StatusReturns(status) /\ status.status = "complete"
           /\ status.identified_entities # NoEnt /\ entSeen = <<>>)
            => /\ entFired = <<>>
               /\ entFired' = <<status.identified_entities>>
               /\ identifiedEntities' = status.identified_entities
               /\ call' = NoCall
               /\ HasMessage(messages', <<"job", call.message_id>>)]_vars
  /\ [][\A status \in StatusResponses :
          (/\ StatusReturns(status) /\ status.status \in {"complete", "error"}
           /\ entSeen' = <<>>)
            => /\ entFired' = <<>> /\ identifiedEntities' = NoEnt
               /\ call' = NoCall
               /\ HasMessage(messages', <<"job", call.message_id>>)
               /\ HasMessage(messages', <<"job_user", call.message_id>>)]_vars
C22_Witness ==
  /\ call = NoCall /\ ~isLoading /\ turns.resolved = 2 /\ turns.ended = 2
  /\ now = 4 /\ entFired = <<"E1">> /\ entSeen = <<"E1">>
  /\ HasMessage(messages, <<"job", 1>>)
  /\ MessageWithId(messages, <<"job", 1>>).identified_entities = NoEnt
  /\ MessageWithId(messages, <<"job", 1>>).route_used = "sql"

\* the render condition of the live entity chips (shown below the list)
LiveEntitiesShown == isLoading /\ identifiedEntities # NoEnt

\* C23 (as amended): the live entity chips are rendered only while a turn is
\* loading, and then they are entities disclosed by the job of that turn;
\* once the turn has ended nothing of the slot is rendered, although the
\* slot keeps its value until the next submission resets it
C23_LiveSlotHiddenWhenIdle ==
  /\ [](LiveEntitiesShown
          => /\ call # NoCall /\ call.pc \in {"timer", "status"}
             /\ entFired = <<identifiedEntities>>)
  /\ [](call = NoCall => ~LiveEntitiesShown)
  /\ [][\A q \in Contents : Submit(q) => identifiedEntities' = NoEnt]_vars
C23_Witness ==
  /\ call = NoCall /\ ~isLoading /\ turns.resolved = 1 /\ turns.ended = 1
  /\ identifiedEntities = "E1" /\ ~LiveEntitiesShown
  /\ HasMessage(messages, <<"job", 1>>)
\* C23 as stated: once a turn has committed and no turn is in flight, the
\* live slot holds no entities
C23_AsStated ==
  (call = NoCall /\ ~isLoading /\ turns.resolved >= 1)
    => identifiedEntities = NoEnt

\* C24: the DELETE call for a job is issued only in the step where a status
\* response with status complete or error is handled for that job, and in
\* that same step the turn commits and the call is over, with the DELETE
\* call still outstanding; whether that call then answers, throws or stays
\* outstanding for ever, the list, the inline error, the loading flag and the
\* storage entry stay as they are
C24_CleanupFireAndForget ==
  /\ [][\A j \in 1..MaxJobs :
          (j \in pendingDeletes' /\ j \notin pendingDeletes)
            => /\ call # NoCall /\ call.message_id = j /\ call.pc = "status"
               /\ \E status \in StatusResponses :
                    /\ status.status \in {"complete", "error"}
                    /\ StatusReturns(status)]_vars
  /\ [][\A status \in StatusResponses :
          (StatusReturns(status) /\ status.status \in {"complete", "error"})
            => /\ call.message_id \in pendingDeletes'
               /\ HasMessage(messages', <<"job", call.message_id>>)
               /\ call' = NoCall /\ ~isLoading']_vars
  /\ [][\A j \in 1..MaxJobs :
          (\/ deletePendingMessageFails(j)
           \/ \E ok \in BOOLEAN : deletePendingMessageReturns(j, ok))
            => /\ messages' = messages /\ error' = error
               /\ isLoading' = isLoading /\ cache' = cache
               /\ call' = call]_vars
C24_Witness ==
  /\ call = NoCall /\ ~isLoading /\ error = ""
  /\ HasMessage(messages, <<"job", 1>>) /\ HasMessage(messages, <<"job", 2>>)
  /\ pendingDeletes = {1}

\* C25 (as amended): the placeholder is appended at the tail of the list in
\* the step of the submission, before startChat is called: while the start
\* call is outstanding the list is the list before the submission followed
\* by the placeholder, and the answer of the start call leaves the list as
\* it is
C25_PlaceholderAtSubmission ==
  /\ [][\A q \in Contents :
          Submit(q) => /\ Len(messages') = Len(messages) + 1
                       /\ SubSeq(messages', 1, Len(messages)) = messages
                       /\ IsTemp(messages'[Len(messages')])
                       /\ messages'[Len(messages')].content = q
                       /\ call'.pc = "start" /\ now' = now]_vars
  /\ []((call # NoCall /\ call.pc = "start")
          => /\ NumTemp(messages) = 1
             /\ Len(messages) = Len(call.listBefore) + 1
             /\ messages[Len(messages)].id = call.tempId
             /\ SubSeq(messages, 1, Len(messages) - 1) = call.listBefore)
  /\ [][StartReturns => messages' = messages]_vars
C25_Witness ==
  /\ call # NoCall /\ call.pc = "start" /\ call.message_id = 2
  /\ Len(messages) = 3 /\ IsTemp(messages[3]) /\ ~IsTemp(messages[2])
  /\ messages[3].id = call.tempId
\* C25 as stated: whenever the placeholder is in the list, the start call of
\* the turn has returned its job id
C25_AsStated ==
  NumTemp(messages) > 0 => (call # NoCall /\ call.pc # "start")

\* C26 as stated: when the history of the active session has arrived and
\* the answer of the load that was started for the session active before
\* arrives last, the list still holds the sorted history of the active
\* session
C26_LastHistoryWins ==
  [][\A s \in histPending : \A history \in HistoryAnswers(s) :
       (/\ HistoryReturns(s, history)
        /\ histPending = {s} /\ sessionId \in DOMAIN store /\ s # sessionId
        /\ call = NoCall
        /\ SameRecords(messages, store[sessionId]))
         => /\ SameRecords(messages', store[sessionId])
            /\ IsOrdered(messages')]_vars

\* C27 as stated: when saveChatSession answers and the session id switches
\* to the saved session, every message that a turn has committed to the
\* list is in the batch the store received, also when the turn committed
\* while the save call was outstanding
C27_SaveLosesNothing ==
  [][\A s \in SessionIds :
       SaveReturns(s)
         => \A i \in 1..Len(messages) :
              messages[i].id[1] \in {"job", "job_user"}
                => \E j \in 1..Len(saveReq.batch) :
                     saveReq.batch[j] = messages[i]]_vars

\* C28: provided every start call and every status call is answered or
\* fails in the end and the poll timer fires, a turn in flight always ends:
\* the loading flag is cleared again, no call and no placeholder is left
\* and the guard of sendMessageContent accepts a question; and the step
\* that ends the turn is a commit, a failure of the start call, a rejection
\* of the poll or the timeout
C28_TurnEnds ==
  /\ isLoading ~> (/\ ~isLoading /\ call = NoCall /\ NumTemp(messages) = 0
                   /\ ~Rejects("q1", isLoading))
  /\ [][(isLoading /\ ~isLoading')
          => /\ turns'.ended = turns.ended + 1
             /\ \/ StartFails
                \/ PollRejected
                \/ \E status \in StatusResponses :
                     /\ status.status \in {"complete", "error"}
                     /\ StatusReturns(status)]_vars
C28_Witness ==
  /\ isLoading /\ call # NoCall /\ call.pc = "start" /\ call.message_id = 2
  /\ turns.ended = 1 /\ turns.resolved = 0 /\ now = MaxPollTime + 2
  /\ messages = <<userMessage(call.content, now)>>

C29_EmptyBatchRefused ==
  /\ error = NoSaveMessages /\ showSaveDialog /\ ~saveReq.pending
  /\ completeMessages(messages) = <<>> /\ sessionId = EmptySession

\* C30 as stated: in the step where a turn commits under the session id it
\* was submitted with, the list still being the one of the submission, its
\* user message and its assistant message become the last two entries of
\* the list, in that order, whatever the list held
C30_PairAtTail ==
  [][\A status \in StatusResponses :
       (/\ StatusReturns(status) /\ status.status \in {"complete", "error"}
        /\ call.sessionId = sessionId /\ histPending = {}
        /\ messages = Append(call.listBefore, userMessage(call.content, call.tempId[2])))
         => LET n == Len(messages') IN
            /\ n >= 2
            /\ messages'[n - 1].id = <<"job_user", call.message_id>>
            /\ messages'[n].id = <<"job", call.message_id>>]_vars

====
